---- MODULE Spec2Model ----
(***************************************************************************)
(* The cvremap element of ext/opencv/gstcvremap.cpp: the property setter,  *)
(* the per-frame remap/copy decision and the caps (frame size)             *)
(* negotiation, as a state machine.                                        *)
(*                                                                         *)
(* Spec      handlers run atomically (one control call or one frame or one *)
(*           negotiation at a time).                                       *)
(* SpecRace  gst_cv_remap_set_property on a control thread interleaved     *)
(*           statement by statement with cv_remap_run on the streaming     *)
(*           thread.                                                       *)
(* SpecCaps  the pure negotiation functions applied to bounded inputs.     *)
(***************************************************************************)
EXTENDS Integers, Sequences, FiniteSets, TLC

\* ------------------------------------------------------------ constants

\* glib's largest gint, the upper clamp of line 328.
G_MAXINT == 2147483647

\* The reference frame size the deltas are taken against (lines 412-416).
RefWidth == 3072
RefHeight == 2048

\* DEFAULT_SHOW_ED (line 90) and DEFAULT_ALPHA (line 91; alpha in tenths).
DEFAULT_SHOW_ED == TRUE
DEFAULT_ALPHA == 0

\* GstPadDirection values as used at lines 411 and 446.
GST_PAD_SRC == "src"
GST_PAD_SINK == "sink"
Directions == {GST_PAD_SINK, GST_PAD_SRC}

\* ------------------------------------------------------------ cv::Mat

\* A cv::Mat is its size and the identity of the data it holds (which file
\* entry it was read from); the pixel data itself is not modelled.
Mat(id, cols, rows) == [id |-> id, cols |-> cols, rows |-> rows]

\* cv::Mat(): the empty matrix of lines 179-180.
MatEmpty == Mat(0, 0, 0)

\* cv::Mat::empty() as used at lines 290 and 399.
empty(m) == m.cols = 0 \/ m.rows = 0

\* ------------------------------------------------------------ map files

\* The maps files the "maps" property may name, and NULL.
NULL == "NULL"
MapFiles == {"ref.yml", "big.yml", "small.yml", "only_a.yml", "only_b.yml",
             "missing.yml"}

\* cv::FileStorage fs(path, 0); fs["map_a"].mat(), fs["map_b"].mat()
\* (lines 219-224): an entry the file lacks, or a file that cannot be
\* opened, reads as an empty matrix.
FsRead(path) ==
    CASE path = "ref.yml"    -> [map_a |-> Mat(1, 3072, 2048), map_b |-> Mat(2, 3072, 2048)]
      [] path = "big.yml"    -> [map_a |-> Mat(3, 4000, 3000), map_b |-> Mat(4, 4000, 3000)]
      [] path = "small.yml"  -> [map_a |-> Mat(5, 640, 480),   map_b |-> Mat(6, 640, 480)]
      [] path = "only_a.yml" -> [map_a |-> Mat(7, 640, 480),   map_b |-> MatEmpty]
      [] path = "only_b.yml" -> [map_a |-> MatEmpty,           map_b |-> Mat(10, 640, 480)]
      [] OTHER               -> [map_a |-> MatEmpty,           map_b |-> MatEmpty]

\* The load a matrix came from: both entries of one file share it.
LoadOf(m) == (m.id + 1) \div 2

\* ------------------------------------------------------------ caps values

\* A GValue holding a caps dimension: a fixed int, an int range [a, b], a
\* list of such values, or a value of any other type (lines 340, 345, 357,
\* 377).
IntV(v) == [t |-> "int", a |-> v, b |-> v, l |-> <<>>]
RangeV(lo, hi) == [t |-> "range", a |-> lo, b |-> hi, l |-> <<>>]
ListV(s) == [t |-> "list", a |-> 0, b |-> 0, l |-> s]
OtherV == [t |-> "other", a |-> 0, b |-> 0, l |-> <<>>]

\* g_value_unset(dest_val) with ret = FALSE (lines 352-353, 374-375, 378-379).
Rejected == [ok |-> FALSE, val |-> OtherV]
Accepted(v) == [ok |-> TRUE, val |-> v]

\* A GstStructure of video caps: its format and the two dimension values.
Structure(f, w, h) == [format |-> f, width |-> w, height |-> h]

\* ------------------------------------------------------------ negotiation

\* gst_cv_remap_transform_dimension clamping to 0 instead of 1:
\* CLAMP (new_val, 0, G_MAXINT).
transform_dimension_clamp0(val, delta) ==
    IF val < delta THEN 0
    ELSE IF delta < 0 /\ val > G_MAXINT + delta THEN G_MAXINT
    ELSE val - delta

\* gst_cv_remap_transform_dimension (lines 324-331):
\*   new_val = (gint64) val - (gint64) delta; CLAMP (new_val, 1, G_MAXINT).
\* The 64-bit difference is compared against the two clamp bounds without
\* being formed when it lies outside [1, G_MAXINT]:
\*   new_val < 1         iff  val <= delta
\*   new_val > G_MAXINT  iff  delta < 0 and val > G_MAXINT + delta
transform_dimension(val, delta) ==
    IF val <= delta THEN 1
    ELSE IF delta < 0 /\ val > G_MAXINT + delta THEN G_MAXINT
    ELSE val - delta

RECURSIVE transform_dimension_value(_, _)
RECURSIVE transform_dimension_list(_, _)

\* The loop of lines 360-371 leaving after its first pass: only the first
\* element is transformed.
transform_dimension_list_first(l, delta) ==
    IF l = <<>> THEN <<>>
    ELSE LET newval == transform_dimension_value(Head(l), delta)
         IN  IF newval.ok THEN <<newval.val>> ELSE <<>>

\* The loop of lines 360-371: each element is transformed in order and
\* appended to dest_val when its own transform succeeds.
transform_dimension_list(l, delta) ==
    IF l = <<>> THEN <<>>
    ELSE LET newval == transform_dimension_value(Head(l), delta)
             rest   == transform_dimension_list(Tail(l), delta)
         IN  IF newval.ok THEN <<newval.val>> \o rest ELSE rest

\* gst_cv_remap_transform_dimension_value (lines 333-383).
transform_dimension_value(src_val, delta) ==
    IF src_val.t = "int" THEN
        Accepted(IntV(transform_dimension(src_val.a, delta)))
    ELSE IF src_val.t = "range" THEN
        LET min == src_val.a
            max == transform_dimension(src_val.b, delta)
        IN  IF min >= max THEN Rejected ELSE Accepted(RangeV(min, max))
    ELSE IF src_val.t = "list" THEN
        LET dest == transform_dimension_list(src_val.l, delta)
        IN  IF Len(dest) = 0 THEN Rejected ELSE Accepted(ListV(dest))
    ELSE Rejected

\* dw of lines 408-417.
dw(direction, m1) ==
    IF direction = GST_PAD_SINK THEN 0 - (m1.cols - RefWidth)
    ELSE 0 + (m1.cols + RefWidth)

\* dh of lines 409-417.
dh(direction, m1) ==
    IF direction = GST_PAD_SINK THEN 0 - (m1.rows - RefHeight)
    ELSE 0 + (m1.rows + RefHeight)

\* The test of line 399 with the table test dropped.
table_loaded_always(m1) == TRUE

\* The test of line 399: a table counts as loaded when map1 is non-empty.
table_loaded(m1) == ~empty(m1)

\* The body of the loop of lines 398-441 for one structure: the copy is
\* left alone without a table, else width then height are transformed and
\* either failure bails out.
transform_structure(direction, m1, s) ==
    IF ~table_loaded(m1) THEN [ok |-> TRUE, s |-> s]
    ELSE LET w_val == transform_dimension_value(s.width, dw(direction, m1))
             h_val == transform_dimension_value(s.height, dh(direction, m1))
         IN  IF ~w_val.ok THEN [ok |-> FALSE, s |-> s]
             ELSE IF ~h_val.ok THEN [ok |-> FALSE, s |-> s]
             ELSE [ok |-> TRUE, s |-> Structure(s.format, w_val.val, h_val.val)]

\* The bail label reached for a failure of the first structure only.
bails_first_only(direction, m1, from) ==
    Len(from) > 0 /\ ~transform_structure(direction, m1, from[1]).ok

\* Whether the loop of lines 397-443 reaches the bail label (lines 425, 436).
bails(direction, m1, from) ==
    \E i \in 1..Len(from) : ~transform_structure(direction, m1, from[i]).ok

\* The caps "to" built by lines 394-443 when no structure bails.
transformed(direction, m1, from) ==
    [i \in 1..Len(from) |-> transform_structure(direction, m1, from[i]).s]

\* ------------------------------------------------------------ caps intersection

RECURSIVE value_intersect(_, _)
RECURSIVE list_intersect(_, _)

\* The elements of list l that intersect v, each replaced by its
\* intersection (a list result contributes its elements).
list_intersect(l, v) ==
    IF l = <<>> THEN <<>>
    ELSE LET r    == value_intersect(Head(l), v)
             rest == list_intersect(Tail(l), v)
         IN  IF ~r.ok THEN rest
             ELSE IF r.val.t = "list" THEN r.val.l \o rest
             ELSE <<r.val>> \o rest

\* gst_value_intersect on dimension values, as gst_caps_intersect (line 448)
\* and gst_caps_intersect_full (line 462) apply it field by field.
value_intersect(v1, v2) ==
    IF v1.t = "list" \/ v2.t = "list" THEN
        LET r == IF v1.t = "list" THEN list_intersect(v1.l, v2)
                 ELSE list_intersect(v2.l, v1)
        IN  IF Len(r) = 0 THEN Rejected
            ELSE IF Len(r) = 1 THEN Accepted(r[1])
            ELSE Accepted(ListV(r))
    ELSE IF v1.t = "other" \/ v2.t = "other" THEN
        IF v1 = v2 THEN Accepted(v1) ELSE Rejected
    ELSE LET lo == IF v1.a >= v2.a THEN v1.a ELSE v2.a
             hi == IF v1.b <= v2.b THEN v1.b ELSE v2.b
         IN  IF lo > hi THEN Rejected
             ELSE IF lo = hi THEN Accepted(IntV(lo))
             ELSE Accepted(RangeV(lo, hi))

\* The intersection of two structures: same format, and both dimensions
\* intersect.
structure_intersect(s1, s2) ==
    LET w == value_intersect(s1.width, s2.width)
        h == value_intersect(s1.height, s2.height)
    IN  IF s1.format = s2.format /\ w.ok /\ h.ok
        THEN [ok |-> TRUE, s |-> Structure(s1.format, w.val, h.val)]
        ELSE [ok |-> FALSE, s |-> s1]

\* gst_caps_intersect (line 448) / gst_caps_intersect_full (line 462): the
\* non-empty pairwise intersections, outer loop over c1.  Caps are compared
\* as sets of structures, so the order the library visits pairs in is not
\* significant here.
caps_intersect(c1, c2) ==
    LET n == Len(c1)
        m == Len(c2)
        all == [k \in 1..(n * m) |->
                   structure_intersect(c1[((k - 1) \div m) + 1],
                                       c2[((k - 1) % m) + 1])]
        kept == SelectSeq(all, LAMBDA r : r.ok)
    IN  [k \in 1..Len(kept) |-> kept[k].s]

\* The image types of the pad templates (lines 154-157); both pads share
\* the one template caps (lines 158-162).
TemplateFormats == <<"CV_16UC1", "CV_8UC4", "CV_8UC3", "CV_8UC1">>

\* The size range of raw video caps, [1, G_MAXINT].
TemplateSize == RangeV(1, G_MAXINT)

\* gst_pad_get_pad_template_caps (other) of line 447.
PadTemplateCaps ==
    [i \in 1..Len(TemplateFormats) |->
        Structure(TemplateFormats[i], TemplateSize, TemplateSize)]

\* A NULL filter, and a filter holding caps (line 456).
NoFilter == [set |-> FALSE, caps |-> <<>>]
Filter(c) == [set |-> TRUE, caps |-> c]

\* gst_cv_remap_transform_caps with lines 456-466 left out: the filter is
\* not applied.
transform_caps_unfiltered(direction, m1, from, filter) ==
    IF bails(direction, m1, from) THEN <<>>
    ELSE caps_intersect(transformed(direction, m1, from), PadTemplateCaps)

\* gst_cv_remap_transform_caps (lines 385-475).
transform_caps(direction, m1, from, filter) ==
    IF bails(direction, m1, from) THEN <<>>
    ELSE LET to  == transformed(direction, m1, from)
             ret == caps_intersect(to, PadTemplateCaps)
         IN  IF filter.set THEN caps_intersect(filter.caps, ret) ELSE ret

\* ------------------------------------------------------------ state

VARIABLES
    showUndistorted,  \* undist->showUndistorted
    alpha,            \* undist->alpha, in tenths
    doRemap,          \* undist->doRemap
    settingsChanged,  \* undist->settingsChanged
    map1,             \* undist->map1
    map2,             \* undist->map2
    mapsPath,         \* undist->mapsPath
    imageSize,        \* undist->imageSize, the negotiated input size
    outSize,          \* out_width, out_height handed to gst_cv_remap_set_info
    negotiated,       \* whether gst_cv_remap_set_info has run
    reconfigure,      \* the src pad's need-reconfigure mark (line 233)
    computedFrom,     \* the map1, map2 the current doRemap was computed from
    frame,            \* what the last cv_remap_run did
    lastOp,           \* the handler that ran last
    pcCtl,            \* SpecRace: position of the control thread
    pcRun,            \* SpecRace: position of the streaming thread
    run,              \* SpecRace: locals of the cv_remap_run in progress
    probe,            \* SpecCaps: the last call of a negotiation function
    roundTrip,        \* how far frames have seen the loads empty, valid, empty
    pcCaps,           \* SpecNegotiate: position of the negotiating thread
    capsRun           \* SpecNegotiate: the gst_cv_remap_transform_caps in progress

element == <<showUndistorted, alpha, doRemap, settingsChanged, map1, map2,
             mapsPath>>
geometry == <<imageSize, outSize, negotiated>>
threads == <<pcCtl, pcRun, run>>
negotiation == <<pcCaps, capsRun>>
vars == <<element, geometry, reconfigure, computedFrom, frame, lastOp,
          threads, probe, roundTrip, negotiation>>

\* ------------------------------------------------------------ inputs

\* Values the "alpha" property is set to (tenths, within [0.0, 1.0]).
AlphaValues == {0, 10}

\* Frame sizes upstream offers.
UpstreamSizes == {<<3072, 2048>>, <<800, 600>>, <<4000, 3000>>}

\* The format upstream offers.
UpstreamFormat == "CV_8UC3"

Size(w, h) == [width |-> w, height |-> h]
NoSize == Size(0, 0)

\* What a cv_remap_run did: the path taken, the maps handed to cv::remap
\* on the remap path (lines 300-301) and whether this frame recomputed
\* doRemap.
Frame(path, m1, m2, recomputed) ==
    [path |-> path, m1 |-> m1, m2 |-> m2, recomputed |-> recomputed]
NoFrame == Frame("none", MatEmpty, MatEmpty, FALSE)

\* The maps doRemap was last computed from.
NoComputedFrom == [m1 |-> MatEmpty, m2 |-> MatEmpty]
NoRun == [changed |-> FALSE, cleared |-> FALSE, v1 |-> FALSE]
NoProbe == [kind |-> "none", direction |-> GST_PAD_SINK, m1 |-> MatEmpty,
            from |-> <<>>, filter |-> NoFilter, bailed |-> FALSE,
            to |-> <<>>, ret |-> <<>>,
            back |-> <<>>, src_val |-> OtherV, delta |-> 0,
            dest |-> Rejected]

\* The locals of a gst_cv_remap_transform_caps in progress: the direction,
\* the number of structures of "from", the loop index i, and for each
\* structure done the outcome of the test of line 399 and the matrices
\* whose cols (lines 412, 415) and rows (lines 413, 416) were read.
NoCapsRun == [direction |-> GST_PAD_SINK, n |-> 0, i |-> 0, loaded |-> <<>>,
              cols |-> <<>>, rows |-> <<>>]

\* ------------------------------------------------------------ construction

\* gst_cv_remap_init (lines 171-186); nothing is negotiated and no frame
\* has run.
Init ==
    /\ showUndistorted = DEFAULT_SHOW_ED
    /\ alpha = DEFAULT_ALPHA
    /\ doRemap = FALSE
    /\ settingsChanged = FALSE
    /\ map1 = MatEmpty
    /\ map2 = MatEmpty
    /\ mapsPath = NULL
    /\ imageSize = NoSize
    /\ outSize = NoSize
    /\ negotiated = FALSE
    /\ reconfigure = FALSE
    /\ computedFrom = NoComputedFrom
    /\ frame = NoFrame
    /\ lastOp = "init"
    /\ pcCtl = "idle"
    /\ pcRun = "idle"
    /\ run = NoRun
    /\ probe = NoProbe
    /\ roundTrip = 0
    /\ pcCaps = "idle"
    /\ capsRun = NoCapsRun

\* No handler is part-way through (always so under Spec and SpecCaps).
Quiescent == pcCtl = "idle" /\ pcRun = "idle"

\* ------------------------------------------------------------ set_property

\* Line 232 left out: the property is stored and the flag left as it was.
settingsChanged_after_set_kept == settingsChanged

\* Line 232: undist->settingsChanged = TRUE.
settingsChanged_after_set == TRUE

\* The tail of gst_cv_remap_set_property (lines 232-233).
SetPropertyTail ==
    /\ settingsChanged' = settingsChanged_after_set
    /\ reconfigure' = TRUE
    /\ lastOp' = "set_property"

\* gst_cv_remap_set_property, PROP_SHOW_ED (lines 204-206, 232-233).
SetUndistort ==
    /\ Quiescent
    /\ \E b \in BOOLEAN : showUndistorted' = b
    /\ SetPropertyTail
    /\ UNCHANGED <<alpha, doRemap, map1, map2, mapsPath, geometry,
                   computedFrom, frame, threads, probe,
                   roundTrip, negotiation>>

\* gst_cv_remap_set_property, PROP_ALPHA (lines 207-209, 232-233).
SetAlpha ==
    /\ Quiescent
    /\ \E a \in AlphaValues : alpha' = a
    /\ SetPropertyTail
    /\ UNCHANGED <<showUndistorted, doRemap, map1, map2, mapsPath, geometry,
                   computedFrom, frame, threads, probe,
                   roundTrip, negotiation>>

\* gst_cv_remap_set_property, PROP_MAPS (lines 210-226, 232-233): the path
\* is replaced by the string given (NULL included); the maps are read only
\* when the new path is not NULL.
SetMaps ==
    /\ Quiescent
    /\ \E str \in MapFiles \cup {NULL} :
          /\ mapsPath' = str
          /\ IF str # NULL
             THEN /\ map1' = FsRead(str).map_a
                  /\ map2' = FsRead(str).map_b
             ELSE UNCHANGED <<map1, map2>>
    /\ SetPropertyTail
    /\ UNCHANGED <<showUndistorted, alpha, doRemap, geometry, computedFrom,
                   frame, threads, probe,
                   roundTrip, negotiation>>

\* ------------------------------------------------------------ negotiation of a stream

\* A caps negotiation pass for a fixed upstream size: the base class maps
\* the sink caps through gst_cv_remap_transform_caps (GST_PAD_SINK), fixes
\* the result and hands both sizes to gst_cv_remap_set_info (lines 257-267),
\* which clears the reconfigure mark of line 233.
Negotiate ==
    /\ pcRun = "idle"
    /\ \E sz \in UpstreamSizes :
          LET from == <<Structure(UpstreamFormat, IntV(sz[1]), IntV(sz[2]))>>
              ret  == transform_caps(GST_PAD_SINK, map1, from, NoFilter)
          IN  /\ ret # <<>>
              /\ ret[1].width.t = "int" /\ ret[1].height.t = "int"
              /\ imageSize' = Size(sz[1], sz[2])
              /\ outSize' = Size(ret[1].width.a, ret[1].height.a)
    /\ negotiated' = TRUE
    /\ reconfigure' = FALSE
    /\ lastOp' = "negotiate"
    /\ UNCHANGED <<element, computedFrom, frame, threads, probe,
                   roundTrip, negotiation>>

\* ------------------------------------------------------------ frames

\* Line 290 replaced by doRemap = TRUE.
tableValid_always(m1, m2) == TRUE

\* Line 290 testing map1 alone.
tableValid_map1_only(m1, m2) == ~empty(m1)

\* Line 290: !undist->map1.empty() && !undist->map2.empty().
tableValid(m1, m2) == ~empty(m1) /\ ~empty(m2)

\* What the "maps" property last asked for (lines 216-224): no path, a file
\* that yields no matrix, one that yields a single matrix, or one that
\* yields both.
LoadKind(path) ==
    IF path = NULL THEN "null"
    ELSE IF empty(FsRead(path).map_a) /\ empty(FsRead(path).map_b) THEN "empty"
    ELSE IF empty(FsRead(path).map_a) \/ empty(FsRead(path).map_b) THEN "partial"
    ELSE "valid"

\* Progress of the frames through the loads "empty, valid, empty": 1 once a
\* frame has recomputed doRemap after the load of an empty table, 2 once a
\* later frame has remapped after the load of a valid one, 3 once a frame
\* after that has recomputed doRemap after another empty load.
RoundTripAfterFrame ==
    IF ~settingsChanged THEN roundTrip
    ELSE IF LoadKind(mapsPath) = "empty" /\ roundTrip \in {0, 2}
         THEN roundTrip + 1
    ELSE IF LoadKind(mapsPath) = "valid" /\ showUndistorted /\ roundTrip = 1
         THEN 2
    ELSE roundTrip

\* gst_cv_remap_transform_frame / cv_remap_run (lines 272-308) for one
\* frame; the base class renegotiates before a frame when the reconfigure
\* mark is set, so a frame runs only on a current negotiation.
TransformFrame ==
    /\ Quiescent
    /\ negotiated /\ ~reconfigure
    /\ LET recomputed == IF settingsChanged THEN tableValid(map1, map2)
                         ELSE doRemap
       IN  /\ doRemap' = recomputed
           /\ computedFrom' = IF settingsChanged
                              THEN [m1 |-> map1, m2 |-> map2]
                              ELSE computedFrom
           /\ frame' = IF showUndistorted /\ recomputed
                       THEN Frame("remap", map1, map2, settingsChanged)
                       ELSE Frame("copy", MatEmpty, MatEmpty, settingsChanged)
    /\ settingsChanged' = FALSE
    /\ roundTrip' = RoundTripAfterFrame
    /\ lastOp' = "transform_frame"
    /\ UNCHANGED <<showUndistorted, alpha, map1, map2, mapsPath, geometry,
                   reconfigure, threads, probe,
                   negotiation>>

\* ------------------------------------------------------------ the pixels of a frame

\* Lines 298-299 with the two ranges exchanged:
\* outRoi (outimg, cv::Range (0, map1.cols), cv::Range (0, map1.rows)).
outRoi_swapped(m1) == [rows |-> m1.cols, cols |-> m1.rows]

\* Lines 298-299: outRoi is the region of outimg of rows [0, map1.rows) and
\* columns [0, map1.cols).
outRoi(m1) == [rows |-> m1.rows, cols |-> m1.cols]

\* The cv::Mat region constructor of line 298 accepts only ranges that lie
\* within outimg; otherwise it throws and cv_remap_run writes nothing.
RoiFits(roi, out) == roi.rows <= out.height /\ roi.cols <= out.width

\* Pixels are <<row, column>>; the pixels of a buffer of a given size.
InBuffer(p, size) == p[1] < size.height /\ p[2] < size.width
InRoi(p, roi) == p[1] < roi.rows /\ p[2] < roi.cols

\* Pixels looked at: corners of the tables' regions, of the frame sizes,
\* and pixels just outside them.
SamplePixels ==
    {<<0, 0>>, <<479, 639>>, <<480, 0>>, <<0, 640>>, <<500, 0>>,
     <<599, 799>>, <<1431, 1567>>, <<2047, 3071>>, <<2048, 0>>,
     <<2999, 3999>>}

\* What one cv_remap_run (lines 293-307) leaves in pixel p of the
\* destination buffer, given the branch taken, the map1 in place, the size
\* of img and the size of outimg:
\*   "remap"  the pixel belongs to outRoi, which cv::remap fills from img
\*            (lines 300-301; BORDER_TRANSPARENT leaves a pixel whose
\*            source lies outside img as it was);
\*   "img"    the pixel equals the pixel of img at the same place (line 306);
\*   "kept"   the call did not touch the pixel.
\* img.copyTo (outimg) writes into the destination buffer only when outimg
\* already has the size of img; otherwise it allocates new storage for the
\* local header outimg and the buffer is not written.
OutPixel(path, m1, in, out, p) ==
    IF path = "remap" THEN
        IF RoiFits(outRoi(m1), out) /\ InRoi(p, outRoi(m1))
        THEN "remap" ELSE "kept"
    ELSE IF in = out THEN "img" ELSE "kept"

\* ------------------------------------------------------------ specification

Next ==
    \/ SetUndistort
    \/ SetAlpha
    \/ SetMaps
    \/ Negotiate
    \/ TransformFrame

Spec == Init /\ [][Next]_vars

\* ------------------------------------------------------------ the two threads, statement by statement

\* The element takes no lock and uses no atomic: settingsChanged, the maps
\* and showUndistorted are plain fields written by the thread that sets a
\* property and read by the streaming thread (the TODO of line 285).  Each
\* action below is one access to them.  Within cv_remap_run the store of
\* line 287 and the loads of line 290 touch different objects and nothing
\* orders them for the other thread, so the store may take effect before,
\* between or after the loads; it has taken effect by line 293.

\* The maps files loaded while frames flow.
RaceMapFiles == {"small.yml", "big.yml", "missing.yml"}

\* Line 205, called from the control thread.
RaceSetUndistort ==
    /\ pcCtl = "idle"
    /\ \E b \in BOOLEAN : showUndistorted' = b
    /\ pcCtl' = "flag"
    /\ UNCHANGED <<alpha, doRemap, settingsChanged, map1, map2, mapsPath,
                   geometry, reconfigure, computedFrom, frame, lastOp,
                   pcRun, run, probe,
                   roundTrip, negotiation>>

\* Lines 211-218: the path is replaced; the maps are read when it is set.
RaceSetPath ==
    /\ pcCtl = "idle"
    /\ \E str \in RaceMapFiles \cup {NULL} :
          /\ mapsPath' = str
          /\ pcCtl' = IF str # NULL THEN "map1" ELSE "flag"
    /\ UNCHANGED <<showUndistorted, alpha, doRemap, settingsChanged, map1,
                   map2, geometry, reconfigure, computedFrom, frame, lastOp,
                   pcRun, run, probe,
                   roundTrip, negotiation>>

\* Lines 219-220: undist->map1 = fs["map_a"].mat().
RaceLoadMap1 ==
    /\ pcCtl = "map1"
    /\ map1' = FsRead(mapsPath).map_a
    /\ pcCtl' = "map2"
    /\ UNCHANGED <<showUndistorted, alpha, doRemap, settingsChanged, map2,
                   mapsPath, geometry, reconfigure, computedFrom, frame,
                   lastOp, pcRun, run, probe,
                   roundTrip, negotiation>>

\* Line 222: undist->map2 = fs["map_b"].mat().
RaceLoadMap2 ==
    /\ pcCtl = "map2"
    /\ map2' = FsRead(mapsPath).map_b
    /\ pcCtl' = "flag"
    /\ UNCHANGED <<showUndistorted, alpha, doRemap, settingsChanged, map1,
                   mapsPath, geometry, reconfigure, computedFrom, frame,
                   lastOp, pcRun, run, probe,
                   roundTrip, negotiation>>

\* Lines 232-233, after which gst_cv_remap_set_property returns.
RaceSetFlag ==
    /\ pcCtl = "flag"
    /\ SetPropertyTail
    /\ pcCtl' = "idle"
    /\ UNCHANGED <<showUndistorted, alpha, doRemap, map1, map2, mapsPath,
                   geometry, computedFrom, frame, pcRun, run, probe,
                   roundTrip, negotiation>>

\* Line 286: cv_remap_run starts and tests settingsChanged.
RunTest ==
    /\ pcRun = "idle"
    /\ negotiated /\ ~reconfigure
    /\ run' = [NoRun EXCEPT !.changed = settingsChanged]
    /\ pcRun' = IF settingsChanged THEN "load1" ELSE "select"
    /\ UNCHANGED <<element, geometry, reconfigure, computedFrom, frame,
                   lastOp, pcCtl, probe,
                   roundTrip, negotiation>>

\* Line 287: settingsChanged = FALSE takes effect.
RunClearFlag ==
    /\ pcRun \in {"load1", "load2", "select"}
    /\ run.changed /\ ~run.cleared
    /\ settingsChanged' = FALSE
    /\ run' = [run EXCEPT !.cleared = TRUE]
    /\ UNCHANGED <<showUndistorted, alpha, doRemap, map1, map2, mapsPath,
                   geometry, reconfigure, computedFrom, frame, lastOp,
                   pcCtl, pcRun, probe,
                   roundTrip, negotiation>>

\* Line 290, left operand: !undist->map1.empty().
RunLoadMap1 ==
    /\ pcRun = "load1"
    /\ run' = [run EXCEPT !.v1 = ~empty(map1)]
    /\ computedFrom' = [computedFrom EXCEPT !.m1 = map1]
    /\ pcRun' = "load2"
    /\ UNCHANGED <<element, geometry, reconfigure, frame, lastOp, pcCtl,
                   probe,
                   roundTrip, negotiation>>

\* Line 290, right operand and the store to doRemap (which overwrites the
\* FALSE of line 288; only this thread reads doRemap).
RunLoadMap2 ==
    /\ pcRun = "load2"
    /\ doRemap' = (run.v1 /\ ~empty(map2))
    /\ computedFrom' = [computedFrom EXCEPT !.m2 = map2]
    /\ pcRun' = "select"
    /\ UNCHANGED <<showUndistorted, alpha, settingsChanged, map1, map2,
                   mapsPath, geometry, reconfigure, frame, lastOp, pcCtl,
                   run, probe,
                   roundTrip, negotiation>>

\* Line 293 choosing the copy path, and line 306.
RunCopy ==
    /\ pcRun = "select"
    /\ run.changed => run.cleared
    /\ ~(showUndistorted /\ doRemap)
    /\ frame' = Frame("copy", MatEmpty, MatEmpty, run.changed)
    /\ lastOp' = "transform_frame"
    /\ pcRun' = "idle"
    /\ run' = NoRun
    /\ UNCHANGED <<element, geometry, reconfigure, computedFrom, pcCtl,
                   probe,
                   roundTrip, negotiation>>

\* Line 293 choosing the remap path, and lines 298-299: the region of
\* outimg is taken from map1.rows and map1.cols.
RunRoi ==
    /\ pcRun = "select"
    /\ run.changed => run.cleared
    /\ showUndistorted /\ doRemap
    /\ pcRun' = "remap"
    /\ UNCHANGED <<element, geometry, reconfigure, computedFrom, frame,
                   lastOp, pcCtl, run, probe,
                   roundTrip, negotiation>>

\* Lines 300-301: cv::remap reads undist->map1 and undist->map2.
RunRemap ==
    /\ pcRun = "remap"
    /\ frame' = Frame("remap", map1, map2, run.changed)
    /\ lastOp' = "transform_frame"
    /\ pcRun' = "idle"
    /\ run' = NoRun
    /\ UNCHANGED <<element, geometry, reconfigure, computedFrom, pcCtl,
                   probe,
                   roundTrip, negotiation>>

NextRace ==
    \/ RaceSetUndistort
    \/ RaceSetPath
    \/ RaceLoadMap1
    \/ RaceLoadMap2
    \/ RaceSetFlag
    \/ Negotiate
    \/ RunTest
    \/ RunClearFlag
    \/ RunLoadMap1
    \/ RunLoadMap2
    \/ RunCopy
    \/ RunRoi
    \/ RunRemap

SpecRace == Init /\ [][NextRace]_vars

\* ------------------------------------------------------------ the negotiation functions on bounded inputs

\* The longest caps (number of structures) and the longest value list
\* handed to the negotiation functions.
MaxStructs == 2
MaxListLen == 2

\* All sequences over S of length 1..n.
SeqsUpTo(S, n) == UNION {[1..k -> S] : k \in 1..n}

\* Candidate widths and heights of caps that reach
\* gst_cv_remap_transform_caps: the base class hands it caps already
\* intersected with the pad template, so every dimension lies in
\* [1, G_MAXINT].
WidthCandidates ==
    {IntV(640), IntV(3072), IntV(10000), IntV(G_MAXINT),
     RangeV(1, G_MAXINT), RangeV(1, 100),
     ListV(<<IntV(640), RangeV(1, 100)>>)}
HeightCandidates == {IntV(2048), RangeV(1, 100)}
CandidateFormats == {"CV_8UC3"}
CandidateStructures ==
    {Structure(f, w, h) : f \in CandidateFormats, w \in WidthCandidates,
                          h \in HeightCandidates}
CandidateCaps == SeqsUpTo(CandidateStructures, MaxStructs)

\* The filter argument: NULL, caps narrowing the width, caps of another
\* format, and caps offering a list of widths.
Filters ==
    {NoFilter,
     Filter(<<Structure("CV_8UC3", RangeV(1, 1000), RangeV(1, G_MAXINT))>>),
     Filter(<<Structure("CV_8UC1", RangeV(1, G_MAXINT), RangeV(1, G_MAXINT))>>),
     Filter(<<Structure("CV_8UC3", ListV(<<IntV(640), IntV(3072)>>),
                        IntV(2048))>>)}

\* A call of gst_cv_remap_transform_caps (lines 385-475) on the element as
\* it stands.
CallTransformCaps ==
    /\ Quiescent /\ probe = NoProbe
    /\ \E direction \in Directions, from \in CandidateCaps, filter \in Filters :
          probe' = [NoProbe EXCEPT
                       !.kind = "transform_caps",
                       !.direction = direction,
                       !.m1 = map1,
                       !.from = from,
                       !.filter = filter,
                       !.bailed = bails(direction, map1, from),
                       !.to = IF bails(direction, map1, from) THEN <<>>
                              ELSE transformed(direction, map1, from),
                       !.ret = transform_caps(direction, map1, from, filter)]
    /\ lastOp' = "transform_caps"
    /\ UNCHANGED <<element, geometry, reconfigure, computedFrom, frame,
                   threads,
                   roundTrip, negotiation>>

\* Fixed sizes sent through negotiation and back.
RoundTripSizes == {<<3072, 2048>>, <<10000, 8000>>, <<640, 480>>}

\* gst_cv_remap_transform_caps called for the sink direction on a fixed
\* size, then for the src direction on its result.
CallRoundTrip ==
    /\ Quiescent /\ probe = NoProbe
    /\ \E sz \in RoundTripSizes :
          LET from == <<Structure(UpstreamFormat, IntV(sz[1]), IntV(sz[2]))>>
              fwd  == transform_caps(GST_PAD_SINK, map1, from, NoFilter)
          IN  probe' = [NoProbe EXCEPT
                           !.kind = "round_trip",
                           !.m1 = map1,
                           !.from = from,
                           !.ret = fwd,
                           !.back = transform_caps(GST_PAD_SRC, map1, fwd,
                                                   NoFilter)]
    /\ lastOp' = "transform_caps"
    /\ UNCHANGED <<element, geometry, reconfigure, computedFrom, frame,
                   threads,
                   roundTrip, negotiation>>

\* Values and deltas for gst_cv_remap_transform_dimension_value, which
\* takes any GValue and any gint delta.
DimensionInts == {-5, 0, 1, 640, 3072, G_MAXINT}
DimensionRanges ==
    {RangeV(1, G_MAXINT), RangeV(0, 5), RangeV(-5, 5), RangeV(1, 5),
     RangeV(640, 4000), RangeV(3000, G_MAXINT)}
ListElements == {IntV(1), IntV(7000), RangeV(1, 5), OtherV}
DimensionValues ==
    {IntV(v) : v \in DimensionInts} \cup DimensionRanges
    \cup {ListV(l) : l \in SeqsUpTo(ListElements, MaxListLen)}
    \cup {ListV(<<>>), OtherV}
Deltas == {-928, 0, 10, 2432, 7072}

\* A call of gst_cv_remap_transform_dimension_value (lines 333-383).
CallTransformDimensionValue ==
    /\ Quiescent /\ probe = NoProbe
    /\ \E src_val \in DimensionValues, delta \in Deltas :
          probe' = [NoProbe EXCEPT
                       !.kind = "transform_dimension_value",
                       !.src_val = src_val,
                       !.delta = delta,
                       !.dest = transform_dimension_value(src_val, delta)]
    /\ lastOp' = "transform_dimension_value"
    /\ UNCHANGED <<element, geometry, reconfigure, computedFrom, frame,
                   threads,
                   roundTrip, negotiation>>

\* The caller drops the result of the call, before the next call or
\* property change.
DropResult ==
    /\ probe # NoProbe
    /\ probe' = NoProbe
    /\ UNCHANGED <<element, geometry, reconfigure, computedFrom, frame,
                   lastOp, threads,
                   roundTrip, negotiation>>

\* gst_cv_remap_set_property, PROP_MAPS, between calls.
LoadMaps == probe = NoProbe /\ SetMaps

NextCaps ==
    \/ LoadMaps
    \/ CallTransformCaps
    \/ CallRoundTrip
    \/ CallTransformDimensionValue
    \/ DropResult

SpecCaps == Init /\ [][NextCaps]_vars

\* ------------------------------------------------------------ negotiation while the table is replaced

\* gst_cv_remap_transform_caps runs on the thread that drives a caps query
\* and reads undist->map1 three times for each structure (lines 399, 412
\* or 415, 413 or 416) with no lock, while gst_cv_remap_set_property may
\* assign map1 (line 220) on another thread.  Each action below is one of
\* those reads; the values of the candidates play no part in them, so a
\* call is given by its direction and the number of structures of "from".

\* Lines 394-397: the call starts with the first structure.
CapsStart ==
    /\ pcCaps = "idle"
    /\ \E direction \in Directions, n \in 1..MaxStructs :
          capsRun' = [NoCapsRun EXCEPT !.direction = direction, !.n = n,
                                       !.i = 1]
    /\ pcCaps' = "test"
    /\ UNCHANGED <<element, geometry, reconfigure, computedFrom, frame,
                   lastOp, threads, probe, roundTrip>>

\* Line 399: if (!cvremap->map1.empty ()); without a table the structure
\* is appended unchanged (line 442) and no size is read.
CapsTest ==
    /\ pcCaps = "test"
    /\ capsRun' = [capsRun EXCEPT
                      !.loaded = Append(@, table_loaded(map1)),
                      !.cols = IF table_loaded(map1) THEN @
                               ELSE Append(@, MatEmpty),
                      !.rows = IF table_loaded(map1) THEN @
                               ELSE Append(@, MatEmpty)]
    /\ pcCaps' = IF table_loaded(map1) THEN "cols" ELSE "next"
    /\ UNCHANGED <<element, geometry, reconfigure, computedFrom, frame,
                   lastOp, threads, probe, roundTrip>>

\* Line 412 or 415: dw is computed from cvremap->map1.cols.
CapsReadCols ==
    /\ pcCaps = "cols"
    /\ capsRun' = [capsRun EXCEPT !.cols = Append(@, map1)]
    /\ pcCaps' = "rows"
    /\ UNCHANGED <<element, geometry, reconfigure, computedFrom, frame,
                   lastOp, threads, probe, roundTrip>>

\* Line 413 or 416: dh is computed from cvremap->map1.rows.
CapsReadRows ==
    /\ pcCaps = "rows"
    /\ capsRun' = [capsRun EXCEPT !.rows = Append(@, map1)]
    /\ pcCaps' = "next"
    /\ UNCHANGED <<element, geometry, reconfigure, computedFrom, frame,
                   lastOp, threads, probe, roundTrip>>

\* Lines 442-443 and 397: the structure is appended and the loop goes on
\* to the next one, or the call returns after the last.
CapsNext ==
    /\ pcCaps = "next"
    /\ IF capsRun.i < capsRun.n
       THEN /\ capsRun' = [capsRun EXCEPT !.i = @ + 1]
            /\ pcCaps' = "test"
            /\ UNCHANGED lastOp
       ELSE /\ pcCaps' = "idle"
            /\ lastOp' = "transform_caps"
            /\ UNCHANGED capsRun
    /\ UNCHANGED <<element, geometry, reconfigure, computedFrom, frame,
                   threads, probe, roundTrip>>

NextNegotiate ==
    \/ RaceSetPath
    \/ RaceLoadMap1
    \/ RaceLoadMap2
    \/ RaceSetFlag
    \/ CapsStart
    \/ CapsTest
    \/ CapsReadCols
    \/ CapsReadRows
    \/ CapsNext

SpecNegotiate == Init /\ [][NextNegotiate]_vars

\* ------------------------------------------------------------ claims

\* C1: with handlers run atomically, a frame takes the remap path if and
\* only if, at its start, map1 and map2 are both non-empty and undistort is
\* enabled, and otherwise the copy path; and whenever settingsChanged is
\* FALSE, doRemap equals (map1 non-empty and map2 non-empty).
C1_RemapIffTableValid ==
    /\ lastOp = "transform_frame" =>
          /\ frame.path \in {"remap", "copy"}
          /\ frame.path = "remap" <=>
                (~empty(map1) /\ ~empty(map2) /\ showUndistorted)
    /\ ~settingsChanged => (doRemap <=> (~empty(map1) /\ ~empty(map2)))

\* C1 witness: a frame consumed the flag, found both maps loaded and took
\* the remap path.
C1_Witness ==
    /\ lastOp = "transform_frame" /\ frame.recomputed
    /\ frame.path = "remap" /\ ~settingsChanged /\ doRemap

\* C2: once a property call has loaded a valid table with undistort
\* enabled, the next frame, and every later frame until the next property
\* call, remaps with exactly the two maps of the file now named by the maps
\* property, never with those of an earlier load.
C2_NewTableTakesEffectNextFrame ==
    (/\ lastOp = "transform_frame"
     /\ mapsPath # NULL
     /\ ~empty(FsRead(mapsPath).map_a) /\ ~empty(FsRead(mapsPath).map_b)
     /\ showUndistorted)
    => /\ frame.path = "remap"
       /\ frame.m1 = FsRead(mapsPath).map_a
       /\ frame.m2 = FsRead(mapsPath).map_b

\* C2 witness: the first frame after big.yml was loaded remaps with its
\* two maps.
C2_Witness ==
    /\ lastOp = "transform_frame" /\ frame.recomputed /\ showUndistorted
    /\ mapsPath = "big.yml"
    /\ frame.path = "remap" /\ frame.m1 = FsRead("big.yml").map_a
    /\ frame.m2 = FsRead("big.yml").map_b

\* C6: whenever a frame takes the copy path, the downstream size of the
\* negotiation it runs on equals the upstream size.
C6_CopyPathSizesEqual ==
    (lastOp = "transform_frame" /\ frame.path = "copy") => outSize = imageSize

\* C3: under any interleaving of the steps of gst_cv_remap_set_property
\* with those of cv_remap_run, the map1 and map2 a frame hands to cv::remap
\* belong to the same load, are the maps its doRemap was computed from, and
\* are both non-empty.
C3_RemapSeesOneLoad ==
    (pcRun = "idle" /\ frame.path = "remap") =>
        /\ ~empty(frame.m1) /\ ~empty(frame.m2)
        /\ LoadOf(frame.m1) = LoadOf(frame.m2)
        /\ frame.m1 = computedFrom.m1 /\ frame.m2 = computedFrom.m2

\* C4: no property mutation is lost: once every property call has returned
\* and the frames it overlapped have finished, either settingsChanged is
\* still TRUE (a later frame will recompute) or doRemap has been recomputed
\* from the maps as they now are.
C4_NoMutationLost ==
    (pcCtl = "idle" /\ pcRun = "idle" /\ ~settingsChanged) =>
        (doRemap <=> (~empty(map1) /\ ~empty(map2)))

\* The structures of caps, as a set.
Structures(caps) == {caps[i] : i \in 1..Len(caps)}

\* Whether every structure of caps has a fixed width and a fixed height.
FixedSize(caps) ==
    \A i \in 1..Len(caps) : caps[i].width.t = "int" /\ caps[i].height.t = "int"

\* C5: for fixed-size candidates and a loaded table of destination size
\* W x H, gst_cv_remap_transform_caps in the sink direction yields exactly
\* the size W x H whatever the candidates' own sizes (NULL filter).
C5_SinkYieldsTableSize ==
    (/\ probe.kind = "transform_caps" /\ ~probe.filter.set
     /\ probe.direction = GST_PAD_SINK
     /\ ~empty(probe.m1)
     /\ FixedSize(probe.from))
    => /\ probe.ret # <<>>
       /\ \A i \in 1..Len(probe.ret) :
             /\ probe.ret[i].width = IntV(probe.m1.cols)
             /\ probe.ret[i].height = IntV(probe.m1.rows)

\* C7: with no table loaded, gst_cv_remap_transform_caps returns the
\* candidate set it was given, in both directions (NULL filter).
C7_IdentityWithoutTable ==
    (probe.kind = "transform_caps" /\ empty(probe.m1) /\ ~probe.filter.set)
    => /\ ~probe.bailed
       /\ Structures(probe.ret) = Structures(probe.from)
       /\ Len(probe.ret) = Len(probe.from)

\* C7 witness: two candidates, one a range and one fixed, come back
\* unchanged in the src direction with no table loaded.
C7_Witness ==
    /\ probe.kind = "transform_caps" /\ empty(probe.m1)
    /\ ~probe.filter.set
    /\ probe.direction = GST_PAD_SRC
    /\ probe.from = <<Structure("CV_8UC3", RangeV(1, G_MAXINT), IntV(2048)),
                      Structure("CV_8UC3", IntV(640), RangeV(1, 100))>>
    /\ probe.ret = probe.from

\* Whether wmax - delta, formed in 64 bits, exceeds G_MAXINT.
AboveMaxInt(wmax, delta) == delta < 0 /\ wmax > G_MAXINT + delta

\* C8 as stated: a range [wmin, wmax] shifted by d (the function's delta is
\* -d) yields [wmin, wmax + d] when wmin < wmax + d and is rejected
\* otherwise.  wmax + d above G_MAXINT is no gint, so no range returned has
\* it as upper bound.
C8_RangeShiftUnclamped ==
    (probe.kind = "transform_dimension_value" /\ probe.src_val.t = "range")
    => LET wmin  == probe.src_val.a
           wmax  == probe.src_val.b
           delta == probe.delta
       IN  IF AboveMaxInt(wmax, delta) THEN FALSE
           ELSE IF wmin < wmax - delta
                THEN probe.dest = Accepted(RangeV(wmin, wmax - delta))
                ELSE ~probe.dest.ok

\* C8 amended: the shifted upper bound is clamped to [1, G_MAXINT]; with c
\* the clamped wmax + d, the result is [wmin, c] when wmin < c and the
\* candidate is rejected otherwise; the lower bound is never shifted.
C8_RangeShiftClamped ==
    (probe.kind = "transform_dimension_value" /\ probe.src_val.t = "range")
    => LET wmin  == probe.src_val.a
           wmax  == probe.src_val.b
           delta == probe.delta
           c     == IF AboveMaxInt(wmax, delta) THEN G_MAXINT
                    ELSE IF wmax - delta < 1 THEN 1
                    ELSE wmax - delta
       IN  IF wmin < c
           THEN probe.dest = Accepted(RangeV(wmin, c))
           ELSE ~probe.dest.ok

\* C8 witness: [1, G_MAXINT] shifted up by 928 keeps G_MAXINT as its upper
\* bound.
C8_Witness ==
    /\ probe.kind = "transform_dimension_value"
    /\ probe.src_val = RangeV(1, G_MAXINT) /\ probe.delta = -928
    /\ probe.dest = Accepted(RangeV(1, G_MAXINT))

\* Whether the fixed sizes of caps stayed clear of both clamp bounds.
Unclamped(caps) ==
    \A i \in 1..Len(caps) :
        /\ caps[i].width.a \notin {1, G_MAXINT}
        /\ caps[i].height.a \notin {1, G_MAXINT}

\* C9: with a table loaded, the src direction undoes the sink direction: a
\* fixed size sent through the sink transform and then the src transform,
\* neither result clamped, comes back as it was.
C9_ReverseUndoesForward ==
    (/\ probe.kind = "round_trip"
     /\ ~empty(probe.m1)
     /\ probe.ret # <<>> /\ probe.back # <<>>
     /\ Unclamped(probe.ret) /\ Unclamped(probe.back))
    => probe.back = probe.from

RECURSIVE ValidDimension(_)
\* Whether a dimension value holds only sizes within [1, G_MAXINT].
ValidDimension(v) ==
    IF v.t = "int" THEN 1 <= v.a /\ v.a <= G_MAXINT
    ELSE IF v.t = "range" THEN 1 <= v.a /\ v.a < v.b /\ v.b <= G_MAXINT
    ELSE IF v.t = "list" THEN
        /\ Len(v.l) > 0
        /\ \A i \in 1..Len(v.l) : ValidDimension(v.l[i])
    ELSE FALSE

ValidCaps(caps) ==
    \A i \in 1..Len(caps) :
        ValidDimension(caps[i].width) /\ ValidDimension(caps[i].height)

\* C10: no width or height that is zero or negative (or above G_MAXINT)
\* leaves negotiation: every dimension of the caps built by
\* gst_cv_remap_transform_caps and of the caps it returns, bounds of ranges
\* and elements of lists included, lies in [1, G_MAXINT]; a candidate is
\* otherwise rejected.
C10_DimensionsPositive ==
    probe.kind = "transform_caps" =>
        /\ ValidCaps(probe.to)
        /\ ValidCaps(probe.ret)
        /\ probe.bailed => probe.ret = <<>>

\* C10 witness: a 640x2048 candidate taken below 1 by the src-direction
\* deltas comes out as 1x1.
C10_Witness ==
    /\ probe.kind = "transform_caps" /\ ~empty(probe.m1)
    /\ probe.direction = GST_PAD_SRC
    /\ probe.from = <<Structure("CV_8UC3", IntV(640), IntV(2048))>>
    /\ probe.ret = <<Structure("CV_8UC3", IntV(1), IntV(1))>>

\* C11: after the load of an empty table the first frame leaves the
\* element as it was constructed, doRemap FALSE, and copies the frame; so
\* too when a valid table was loaded and used in between (loads empty,
\* valid, empty, a frame after each).
C11_EmptyLoadRestoresPassThrough ==
    (/\ lastOp = "transform_frame" /\ frame.recomputed
     /\ LoadKind(mapsPath) = "empty")
    => /\ ~doRemap
       /\ frame.path = "copy"
       /\ empty(map1) /\ empty(map2)

\* C11 witness: the third frame of the round trip, after the second empty
\* load, copies with doRemap FALSE.
C11_Witness ==
    /\ lastOp = "transform_frame" /\ frame.recomputed
    /\ LoadKind(mapsPath) = "empty" /\ roundTrip = 3
    /\ ~doRemap /\ frame.path = "copy"

\* C12: a load that fails (a file that is missing, or that lacks one or
\* both matrices) leaves negotiation the identity in both directions, as
\* if no table had ever been loaded (NULL filter).
C12_FailedLoadIsIdentity ==
    (/\ probe.kind = "transform_caps" /\ ~probe.filter.set
     /\ LoadKind(mapsPath) \in {"empty", "partial"})
    => /\ ~probe.bailed
       /\ Structures(probe.ret) = Structures(probe.from)

RECURSIVE ValueWithin(_, _)
\* Whether every size the dimension value v allows, w allows too.
ValueWithin(v, w) ==
    IF v.t = "list" THEN \A i \in 1..Len(v.l) : ValueWithin(v.l[i], w)
    ELSE IF w.t = "list" THEN \E j \in 1..Len(w.l) : ValueWithin(v, w.l[j])
    ELSE /\ v.t \in {"int", "range"} /\ w.t \in {"int", "range"}
         /\ w.a <= v.a /\ v.b <= w.b

\* Whether every structure of caps c lies within some structure of caps d.
CapsWithin(c, d) ==
    \A i \in 1..Len(c) : \E j \in 1..Len(d) :
        /\ c[i].format = d[j].format
        /\ ValueWithin(c[i].width, d[j].width)
        /\ ValueWithin(c[i].height, d[j].height)

\* C13: gst_cv_remap_transform_caps returns caps (possibly empty) that lie
\* within the opposite pad's template caps and, when a filter is given,
\* within the filter; it returns empty caps when every candidate is
\* rejected and when no transformed candidate intersects the template or
\* the filter.
C13_ResultWithinTemplateAndFilter ==
    probe.kind = "transform_caps" =>
        /\ CapsWithin(probe.ret, PadTemplateCaps)
        /\ probe.filter.set => CapsWithin(probe.ret, probe.filter.caps)
        /\ (\A i \in 1..Len(probe.from) :
                ~transform_structure(probe.direction, probe.m1,
                                     probe.from[i]).ok)
           => probe.ret = <<>>
        /\ (probe.filter.set /\
            \A i \in 1..Len(probe.to) : \A j \in 1..Len(probe.filter.caps) :
                ~structure_intersect(probe.to[i], probe.filter.caps[j]).ok)
           => probe.ret = <<>>

\* C13 witness: with no table, a candidate of any width and height 2048
\* comes back narrowed to the filter's widths.
C13_Witness ==
    /\ probe.kind = "transform_caps" /\ empty(probe.m1)
    /\ probe.from = <<Structure("CV_8UC3", RangeV(1, G_MAXINT), IntV(2048))>>
    /\ probe.filter =
          Filter(<<Structure("CV_8UC3", RangeV(1, 1000), RangeV(1, G_MAXINT))>>)
    /\ probe.ret = <<Structure("CV_8UC3", RangeV(1, 1000), IntV(2048))>>

\* C14: when a frame is remapped into a destination buffer that holds the
\* table's rectangle, only pixels of rows [0, map1.rows) and columns
\* [0, map1.cols) are written; every other pixel of the buffer is kept.
C14_RemapWritesOnlyTableRectangle ==
    (/\ lastOp = "transform_frame" /\ frame.path = "remap"
     /\ frame.m1.rows <= outSize.height /\ frame.m1.cols <= outSize.width)
    => \A p \in SamplePixels :
          (/\ InBuffer(p, outSize)
           /\ ~(p[1] < frame.m1.rows /\ p[2] < frame.m1.cols))
          => OutPixel(frame.path, frame.m1, imageSize, outSize, p) = "kept"

\* C14 witness: a 640x480 table remapped into a 1568x1432 buffer: pixel
\* (row 479, column 639) is handed to cv::remap, pixels (480, 0), (0, 640)
\* and (1431, 1567) are kept.
C14_Witness ==
    /\ lastOp = "transform_frame" /\ frame.path = "remap"
    /\ frame.m1 = FsRead("small.yml").map_a
    /\ outSize = Size(1568, 1432)
    /\ OutPixel(frame.path, frame.m1, imageSize, outSize, <<479, 639>>) = "remap"
    /\ OutPixel(frame.path, frame.m1, imageSize, outSize, <<480, 0>>) = "kept"
    /\ OutPixel(frame.path, frame.m1, imageSize, outSize, <<0, 640>>) = "kept"
    /\ OutPixel(frame.path, frame.m1, imageSize, outSize, <<1431, 1567>>) = "kept"

\* C16: on the copy path every pixel of the destination buffer equals the
\* pixel of the source at the same place.
C16_CopyPathCopiesEveryPixel ==
    (lastOp = "transform_frame" /\ frame.path = "copy")
    => \A p \in SamplePixels :
          InBuffer(p, outSize)
          => OutPixel(frame.path, frame.m1, imageSize, outSize, p) = "img"

\* C17: whenever a frame is remapped, the table's rectangle fits the
\* destination buffer of the negotiation the frame runs on:
\* map1.cols <= output width and map1.rows <= output height.
C17_TableFitsNegotiatedOutput ==
    (lastOp = "transform_frame" /\ frame.path = "remap")
    => /\ frame.m1.cols <= outSize.width
       /\ frame.m1.rows <= outSize.height

\* C15: a call of gst_cv_remap_transform_caps that overlaps
\* gst_cv_remap_set_property uses one table: once it has returned, the
\* test of line 399 had the same outcome for every structure, and every
\* width delta and height delta of the call was read from the same map1.
C15_OneTablePerCall ==
    (pcCaps = "idle" /\ capsRun.n > 0) =>
        \A i, j \in 1..capsRun.n :
            /\ capsRun.loaded[i] = capsRun.loaded[j]
            /\ capsRun.cols[i] = capsRun.rows[j]

\* C18: for a list of dimension values,
\* gst_cv_remap_transform_dimension_value returns the list of the
\* transformed elements in their original order without the elements
\* whose own transform fails, and rejects the candidate if and only if no
\* element is left.
C18_ListElementwise ==
    (probe.kind = "transform_dimension_value" /\ probe.src_val.t = "list")
    => LET l    == probe.src_val.l
           each == [i \in 1..Len(l) |->
                       transform_dimension_value(l[i], probe.delta)]
           kept == SelectSeq(each, LAMBDA r : r.ok)
       IN  /\ probe.dest.ok <=> Len(kept) > 0
           /\ probe.dest.ok =>
                 probe.dest.val = ListV([k \in 1..Len(kept) |-> kept[k].val])

\* C18 witness: of the list ([1, 5], 7000) shifted down by 10 the range is
\* dropped (its upper bound is clamped to 1) and 6990 is kept.
C18_Witness ==
    /\ probe.kind = "transform_dimension_value"
    /\ probe.src_val = ListV(<<RangeV(1, 5), IntV(7000)>>)
    /\ probe.delta = 10
    /\ probe.dest = Accepted(ListV(<<IntV(6990)>>))

\* C19: with a table loaded, if the width or the height of any one
\* candidate fails to transform, gst_cv_remap_transform_caps returns empty
\* caps, whatever candidates were transformed before it; a non-empty
\* result means every candidate was transformed.
C19_AllOrNothing ==
    (probe.kind = "transform_caps" /\ ~empty(probe.m1))
    => LET failed(s) ==
               \/ ~transform_dimension_value(
                       s.width, dw(probe.direction, probe.m1)).ok
               \/ ~transform_dimension_value(
                       s.height, dh(probe.direction, probe.m1)).ok
       IN  /\ (\E i \in 1..Len(probe.from) : failed(probe.from[i]))
              => probe.ret = <<>>
           /\ probe.ret # <<>>
              => \A i \in 1..Len(probe.from) : ~failed(probe.from[i])

\* C19 witness: with the 640x480 table, a 3072x2048 candidate followed by
\* one whose width range [1, 100] cannot be shifted down yields empty caps.
C19_Witness ==
    /\ probe.kind = "transform_caps"
    /\ probe.m1 = FsRead("small.yml").map_a
    /\ probe.direction = GST_PAD_SINK
    /\ probe.from = <<Structure("CV_8UC3", IntV(3072), IntV(2048)),
                      Structure("CV_8UC3", RangeV(1, 100), IntV(2048))>>
    /\ probe.bailed /\ probe.ret = <<>>

\* C20: whenever the maps path is unset (NULL), map1 and map2 are empty.
C20_NullPathMeansNoTable ==
    mapsPath = NULL => (empty(map1) /\ empty(map2))

====
